---- MODULE Spec2Model ----
(***************************************************************************)
(* The search service of the backend (rslib/src/backend/search.rs):        *)
(* building an expression tree from a structured filter specification     *)
(* (impl TryFrom<pb::SearchNode> for Node) and the service operations      *)
(* build_search_string, join_search_nodes, replace_search_node and         *)
(* find_and_replace.                                                       *)
(*                                                                         *)
(* A text is a sequence of one-character strings, so that escaping is      *)
(* modelled by what it does to the characters.  A Result<T> is a record    *)
(* with ok = TRUE and the value, or ok = FALSE and the error.              *)
(***************************************************************************)
EXTENDS Integers, Sequences, FiniteSets, TLC

VARIABLES op, input, locals, call, result

vars == <<op, input, locals, call, result>>

(***************************************************************************)
(* Bounds of the inputs the model enumerates.                              *)
(***************************************************************************)
MaxStrLen == 2
MaxGroupLen == 3
MaxInnerLen == 2

U16Range == 65536

Seqs(S, n) == UNION {[1..m -> S] : m \in 0..n}

(***************************************************************************)
(* Results.                                                                *)
(***************************************************************************)
Ok(v) == [ok |-> TRUE, val |-> v]

Err(kind, info) == [ok |-> FALSE, err |-> [kind |-> kind, info |-> info]]

invalid_input(info) == Err("InvalidInput", info)

(***************************************************************************)
(* Text helpers.                                                           *)
(***************************************************************************)
RECURSIVE ConcatAll(_)
ConcatAll(ss) == IF ss = <<>> THEN <<>> ELSE Head(ss) \o ConcatAll(Tail(ss))

AnkiWildcards == {"\\", "*", "_"}

\* text::escape_anki_wildcards: a backslash before every wildcard character.
escape_anki_wildcards(s) ==
    ConcatAll([i \in DOMAIN s |->
        IF s[i] \in AnkiWildcards THEN <<"\\", s[i]>> ELSE <<s[i]>>])

RegexMeta ==
    {"\\", ".", "+", "*", "?", "(", ")", "|", "[", "]", "{", "}", "^", "$",
     "#", "&", "-", "~"}

\* regex::escape: a backslash before every regex meta character.
regex_escape(s) ==
    ConcatAll([i \in DOMAIN s |->
        IF s[i] \in RegexMeta THEN <<"\\", s[i]>> ELSE <<s[i]>>])

Digit(d) == <<"0", "1", "2", "3", "4", "5", "6", "7", "8", "9">>[d + 1]

RECURSIVE NatToString(_)
NatToString(n) ==
    IF n < 10 THEN <<Digit(n)>> ELSE NatToString(n \div 10) \o <<Digit(n % 10)>>

\* i64::to_string
to_string(i) == IF i < 0 THEN <<"-">> \o NatToString(-i) ELSE NatToString(i)

RECURSIVE JoinWith(_, _)
JoinWith(ss, sep) ==
    IF ss = <<>> THEN <<>>
    ELSE IF Len(ss) = 1 THEN ss[1]
    ELSE ss[1] \o sep \o JoinWith(Tail(ss), sep)

\* IdList::into_id_string: the decimal ids joined by commas, in order.
into_id_string(ids) == JoinWith([i \in DOMAIN ids |-> to_string(ids[i])], <<",">>)

(***************************************************************************)
(* Expression trees (search::Node).                                        *)
(***************************************************************************)
Search(p) == [k |-> "Search", p |-> p]

Not(n) == [k |-> "Not", n |-> n]

And == [k |-> "And"]

Or == [k |-> "Or"]

Group(nodes) == [k |-> "Group", nodes |-> nodes]

WholeCollection == Search([kind |-> "WholeCollection"])

IsOperator(n) == n.k \in {"And", "Or"}

\* Node::negated: wraps the tree in a negation.
negated(n) == Not(n)

\* Node::into_node_list: a group's own sequence, anything else alone.
into_node_list(n) == IF n.k = "Group" THEN n.nodes ELSE <<n>>

\* From<Joiner> for BoolSeparator
BoolSeparator(joiner) == IF joiner = "And" THEN "And" ELSE "Or"

SeparatorNode(sep) == IF sep = "And" THEN And ELSE Or

\* From<Rating> for RatingKind
RatingKind(r) ==
    CASE r = "Again" -> [kind |-> "AnswerButton", n |-> 1]
      [] r = "Hard" -> [kind |-> "AnswerButton", n |-> 2]
      [] r = "Good" -> [kind |-> "AnswerButton", n |-> 3]
      [] r = "Easy" -> [kind |-> "AnswerButton", n |-> 4]
      [] r = "Any" -> [kind |-> "AnyAnswerButton"]
      [] r = "ByReschedule" -> [kind |-> "ManualReschedule"]

\* From<CardState> for StateKind
StateKind(s) ==
    CASE s = "New" -> "New"
      [] s = "Learn" -> "Learning"
      [] s = "Review" -> "Review"
      [] s = "Due" -> "Due"
      [] s = "Suspended" -> "Suspended"
      [] s = "Buried" -> "Buried"

(***************************************************************************)
(* The Parser (search::parse_search) is outside this file.  A free text    *)
(* stands for the outcome the Parser has on it: a rejection, or a          *)
(* sequence of nodes of any length.                                        *)
(***************************************************************************)
Texts == {"t_err", "t_none", "t_one", "t_two"}

TagA == Search([kind |-> "Tag", s |-> <<"a">>])

DeckAny == Search([kind |-> "Deck", s |-> <<"*">>])

parse_search(text) ==
    CASE text = "t_err" -> invalid_input("parse")
      [] text = "t_none" -> Ok(<<>>)
      [] text = "t_one" -> Ok(<<TagA>>)
      [] text = "t_two" -> Ok(<<TagA, And, DeckAny>>)

(***************************************************************************)
(* impl TryFrom<pb::SearchNode> for Node                                   *)
(***************************************************************************)
Intersperse(seq, x) ==
    [i \in 1..(2 * Len(seq) - 1) |-> IF i % 2 = 1 THEN seq[(i + 1) \div 2] ELSE x]

\* collect::<Result<Vec<_>>>: the first error, or all the values.
CollectResults(rs) ==
    IF \E i \in DOMAIN rs : ~rs[i].ok
    THEN rs[CHOOSE i \in DOMAIN rs : ~rs[i].ok /\ \A j \in 1..(i - 1) : rs[j].ok]
    ELSE Ok([i \in DOMAIN rs |-> rs[i].val])

FlagNode(flag) ==
    CASE flag = "None" -> Search([kind |-> "Flag", n |-> 0])
      [] flag = "Red" -> Search([kind |-> "Flag", n |-> 1])
      [] flag = "Orange" -> Search([kind |-> "Flag", n |-> 2])
      [] flag = "Green" -> Search([kind |-> "Flag", n |-> 3])
      [] flag = "Blue" -> Search([kind |-> "Flag", n |-> 4])
      [] OTHER -> Not(Search([kind |-> "Flag", n |-> 0]))

\* Faulty variant: every deck pattern that holds a star is kept verbatim.
DeckPattern_AnyStar(s) ==
    IF \E i \in DOMAIN s : s[i] = "*" THEN s ELSE escape_anki_wildcards(s)

\* Filter::Deck
DeckPattern(s) == IF s = <<"*">> THEN s ELSE escape_anki_wildcards(s)

\* Faulty variant: the index is kept at its full width.
TemplateOrdinal_Untruncated(u) == u

\* Filter::Template: u as u16
TemplateOrdinal(u) == u % U16Range

FromParsableText(text) ==
    LET parsed == parse_search(text)
    IN  IF ~parsed.ok THEN parsed
        ELSE IF Len(parsed.val) = 1 THEN Ok(parsed.val[1])
        ELSE Ok(Group(parsed.val))

\* Faulty variant: a negation of a negation is cancelled.
FromNegated_Simplifying(built) ==
    IF ~built.ok THEN built
    ELSE IF built.val.k = "Not" THEN Ok(built.val.n)
    ELSE Ok(negated(built.val))

\* Filter::Negated
FromNegated(built) == IF ~built.ok THEN built ELSE Ok(negated(built.val))

\* Faulty variant: an empty And group is taken for a group that matches everything.
FromGroup_EmptyAndAccepted(joiner, builts) ==
    IF Len(builts) = 0
    THEN IF joiner = "And" THEN Ok(WholeCollection) ELSE invalid_input("empty group")
    ELSE IF Len(builts) = 1 THEN builts[Len(builts)]
    ELSE LET parsed == CollectResults(builts)
         IN  IF ~parsed.ok THEN parsed
             ELSE Ok(Group(Intersperse(parsed.val,
                                       IF joiner = "And" THEN And ELSE Or)))

\* Faulty variant: a group of one child is kept as a group.
FromGroup_SingleWrapped(joiner, builts) ==
    IF Len(builts) = 0 THEN invalid_input("empty group")
    ELSE LET parsed == CollectResults(builts)
         IN  IF ~parsed.ok THEN parsed
             ELSE Ok(Group(Intersperse(parsed.val,
                                       IF joiner = "And" THEN And ELSE Or)))

\* Filter::Group: builts are the group's children, each built in turn.
FromGroup(joiner, builts) ==
    IF Len(builts) = 0 THEN invalid_input("empty group")
    ELSE IF Len(builts) = 1 THEN builts[Len(builts)]
    ELSE LET parsed == CollectResults(builts)
         IN  IF ~parsed.ok THEN parsed
             ELSE Ok(Group(Intersperse(parsed.val,
                                       IF joiner = "And" THEN And ELSE Or)))

RECURSIVE Node_try_from(_)
Node_try_from(msg) ==
    CASE msg.filter = "None" -> Ok(WholeCollection)
      [] msg.filter = "Tag" ->
            Ok(Search([kind |-> "Tag", s |-> escape_anki_wildcards(msg.s)]))
      [] msg.filter = "Deck" ->
            Ok(Search([kind |-> "Deck", s |-> DeckPattern(msg.s)]))
      [] msg.filter = "Note" ->
            Ok(Search([kind |-> "NoteType", s |-> escape_anki_wildcards(msg.s)]))
      [] msg.filter = "Template" ->
            Ok(Search([kind |-> "CardTemplate", ordinal |-> TemplateOrdinal(msg.u)]))
      [] msg.filter = "Nid" ->
            Ok(Search([kind |-> "NoteIDs", s |-> to_string(msg.nid)]))
      [] msg.filter = "Nids" ->
            Ok(Search([kind |-> "NoteIDs", s |-> into_id_string(msg.ids)]))
      [] msg.filter = "Dupe" ->
            Ok(Search([kind |-> "Duplicates", note_type_id |-> msg.notetype_id,
                       text |-> msg.first_field]))
      [] msg.filter = "FieldName" ->
            Ok(Search([kind |-> "SingleField", field |-> escape_anki_wildcards(msg.s),
                       text |-> <<"*">>, is_re |-> FALSE]))
      [] msg.filter = "Rated" ->
            Ok(Search([kind |-> "Rated", days |-> msg.days,
                       ease |-> RatingKind(msg.rating)]))
      [] msg.filter = "AddedInDays" ->
            Ok(Search([kind |-> "AddedInDays", days |-> msg.u]))
      [] msg.filter = "DueInDays" ->
            Ok(Search([kind |-> "Property", operator |-> <<"<", "=">>, due |-> msg.i]))
      [] msg.filter = "DueOnDay" ->
            Ok(Search([kind |-> "Property", operator |-> <<"=">>, due |-> msg.i]))
      [] msg.filter = "EditedInDays" ->
            Ok(Search([kind |-> "EditedInDays", days |-> msg.u]))
      [] msg.filter = "CardState" ->
            Ok(Search([kind |-> "State", state |-> StateKind(msg.state)]))
      [] msg.filter = "Flag" -> Ok(FlagNode(msg.flag))
      [] msg.filter = "Negated" -> FromNegated(Node_try_from(msg.term))
      [] msg.filter = "Group" ->
            FromGroup(msg.joiner,
                      [i \in DOMAIN msg.nodes |-> Node_try_from(msg.nodes[i])])
      [] msg.filter = "ParsableText" -> FromParsableText(msg.text)

(***************************************************************************)
(* The filter specifications (pb::SearchNode) the model enumerates.        *)
(***************************************************************************)
Absent == [filter |-> "None"]

PatChars == {"a", "*", "_"}

Patterns == Seqs(PatChars, MaxStrLen)

TemplateIndices == {0, 1, 65535, 65536, 65537, 131073}

Ratings == {"Again", "Hard", "Good", "Easy", "Any", "ByReschedule"}

CardStates == {"New", "Learn", "Review", "Due", "Suspended", "Buried"}

Flags == {"None", "Any", "Red", "Orange", "Green", "Blue", "Invalid"}

Joiners == {"And", "Or"}

TagSpec(s) == [filter |-> "Tag", s |-> s]

TextSpec(t) == [filter |-> "ParsableText", text |-> t]

NegatedSpec(term) == [filter |-> "Negated", term |-> term]

GroupSpec(joiner, nodes) == [filter |-> "Group", joiner |-> joiner, nodes |-> nodes]

LeafSpecs ==
    {Absent}
    \cup {[filter |-> f, s |-> s] : f \in {"Tag", "Deck", "Note", "FieldName"},
                                     s \in Patterns}
    \cup {[filter |-> "Template", u |-> u] : u \in TemplateIndices}
    \cup {[filter |-> "Nid", nid |-> n] : n \in {0, 12, -3}}
    \cup {[filter |-> "Nids", ids |-> ids] : ids \in {<<>>, <<1>>, <<1, 1>>, <<20, 3>>}}
    \cup {[filter |-> "Dupe", notetype_id |-> 1, first_field |-> s] :
             s \in {<<>>, <<"a">>}}
    \cup {[filter |-> "Rated", days |-> d, rating |-> r] : d \in {1, 4}, r \in Ratings}
    \cup {[filter |-> f, u |-> u] : f \in {"AddedInDays", "EditedInDays"}, u \in {0, 1}}
    \cup {[filter |-> f, i |-> i] : f \in {"DueInDays", "DueOnDay"}, i \in {-1, 0, 1}}
    \cup {[filter |-> "CardState", state |-> s] : s \in CardStates}
    \cup {[filter |-> "Flag", flag |-> f] : f \in Flags}
    \cup {TextSpec(t) : t \in Texts}

\* The operands of the flat groups.
Operands == {Absent, TagSpec(<<"a">>)} \cup {TextSpec(t) : t \in Texts}

FlatSpecs ==
    {NegatedSpec(c) : c \in Operands}
    \cup {GroupSpec(j, cs) : j \in Joiners, cs \in Seqs(Operands, MaxGroupLen)}

\* The operands of the nested groups and negations.
Picks == {TagSpec(<<"a">>), TextSpec("t_err")}

InnerSpecs ==
    Picks
    \cup {NegatedSpec(c) : c \in Picks \cup {[filter |-> "Flag", flag |-> "Any"]}}
    \cup {GroupSpec(j, cs) : j \in Joiners, cs \in Seqs(Picks, MaxInnerLen)}

NestedSpecs ==
    {NegatedSpec(c) : c \in InnerSpecs \cup FlatSpecs}
    \cup {GroupSpec(j, <<c>>) : j \in Joiners, c \in InnerSpecs}
    \cup {GroupSpec(j, <<c, d>>) : j \in Joiners, c \in InnerSpecs, d \in InnerSpecs}

BuildSpecs == LeafSpecs \cup FlatSpecs \cup InnerSpecs \cup NestedSpecs

(***************************************************************************)
(* The service.                                                            *)
(***************************************************************************)
\* search::write_nodes: the text is kept as the sequence it renders.
write_nodes(nodes) == [written |-> nodes]

NoCall == [fn |-> "none"]

\* build_search_string
build_search_string(msg) ==
    LET node == Node_try_from(msg)
    IN  IF ~node.ok
        THEN [locals |-> [node |-> node], call |-> NoCall, result |-> node]
        ELSE [locals |-> [node |-> node],
              call |-> [fn |-> "write_nodes", nodes |-> into_node_list(node.val)],
              result |-> Ok(write_nodes(into_node_list(node.val)))]

\* Option::unwrap_or_default: an absent message is the default pb::SearchNode,
\* which carries no filter.
unwrap_or_default(opt) == IF opt.some THEN opt.msg ELSE Absent

\* Faulty variant: a specification that does not build is taken for an absent one.
TryInto_Lenient(opt) ==
    LET built == Node_try_from(unwrap_or_default(opt))
    IN  IF built.ok THEN built ELSE Ok(WholeCollection)

\* input.<node>.unwrap_or_default().try_into()
TryInto(opt) == Node_try_from(unwrap_or_default(opt))

\* search::concatenate_searches: one separator and the additional node appended
\* to a non-empty sequence; the additional node alone after an empty one.
concatenate_searches(sep, existing, additional) ==
    IF existing = <<>> THEN write_nodes(<<additional>>)
    ELSE write_nodes(existing \o <<SeparatorNode(sep), additional>>)

\* Faulty variant: an absent existing specification is taken for an empty sequence.
ExistingNodes_AbsentEmpty(req, node) ==
    IF ~req.existing_node.some THEN <<>> ELSE into_node_list(node)

\* join_search_nodes: the existing sequence handed on.
ExistingNodes(req, node) == into_node_list(node)

\* join_search_nodes
join_search_nodes(req) ==
    LET sep == BoolSeparator(req.joiner)
        node == TryInto(req.existing_node)
    IN  IF ~node.ok
        THEN [locals |-> [sep |-> sep, node |-> node], call |-> NoCall, result |-> node]
        ELSE
        LET existing_nodes == ExistingNodes(req, node.val)
            additional_node == TryInto(req.additional_node)
        IN  IF ~additional_node.ok
            THEN [locals |-> [sep |-> sep, node |-> node,
                              additional_node |-> additional_node],
                  call |-> NoCall, result |-> additional_node]
            ELSE [locals |-> [sep |-> sep, node |-> node,
                              additional_node |-> additional_node],
                  call |-> [fn |-> "concatenate_searches", sep |-> sep,
                            existing |-> existing_nodes,
                            additional |-> additional_node.val],
                  result |-> Ok(concatenate_searches(sep, existing_nodes,
                                                     additional_node.val))]

\* search::replace_search_node receives the existing sequence and the
\* replacement only.  Which operands it replaces is not decided by its
\* arguments' positions: every sequence that keeps or replaces each operand
\* is an outcome.
replace_search_node(existing, replacement) ==
    {write_nodes([i \in DOMAIN existing |->
                     IF i \in hit THEN replacement ELSE existing[i]]) :
        hit \in SUBSET {i \in DOMAIN existing : ~IsOperator(existing[i])}}

\* Faulty variant: a built group is handed on as one element.
ExistingSequence_Wrapped(node) == <<node>>

\* replace_search_node (the service): the existing sequence handed on.
ExistingSequence(node) == IF node.k = "Group" THEN node.nodes ELSE <<node>>

\* replace_search_node (the service): the outcomes of one request.
ReplaceSearchNodeOutcomes(req) ==
    LET node == TryInto(req.existing_node)
    IN  IF ~node.ok
        THEN {[locals |-> [node |-> node], call |-> NoCall, result |-> node]}
        ELSE
        LET existing == ExistingSequence(node.val)
            replacement == TryInto(req.replacement_node)
        IN  IF ~replacement.ok
            THEN {[locals |-> [node |-> node, replacement |-> replacement],
                   call |-> NoCall, result |-> replacement]}
            ELSE {[locals |-> [node |-> node, replacement |-> replacement],
                   call |-> [fn |-> "replace_search_node", existing |-> existing,
                             replacement |-> replacement.val],
                   result |-> Ok(text)] :
                     text \in replace_search_node(existing, replacement.val)}

CaseInsensitive == <<"(", "?", "i", ")">>

\* Faulty variant: the marker is prefixed before the pattern is escaped.
SearchPattern_MarkerFirst(regex, match_case, search) ==
    LET marked == IF ~match_case THEN CaseInsensitive \o search ELSE search
    IN  IF regex THEN marked ELSE regex_escape(marked)

\* find_and_replace: the pattern handed to the collection.
SearchPattern(regex, match_case, search) ==
    LET escaped == IF regex THEN search ELSE regex_escape(search)
    IN  IF ~match_case THEN CaseInsensitive \o escaped ELSE escaped

FieldName(field_name) ==
    IF field_name = <<>> THEN [some |-> FALSE] ELSE [some |-> TRUE, name |-> field_name]

\* find_and_replace; the collection's own outcome is passed through.
find_and_replace(req, col_outcome) ==
    LET search == SearchPattern(req.regex, req.match_case, req.search)
        nids == [i \in DOMAIN req.nids |-> [note_id |-> req.nids[i]]]
        field_name == FieldName(req.field_name)
        repl == req.replacement
    IN  [locals |-> [search |-> search, nids |-> nids, field_name |-> field_name,
                     repl |-> repl],
         call |-> [fn |-> "find_and_replace", nids |-> nids, search |-> search,
                   repl |-> repl, field_name |-> field_name],
         result |-> col_outcome]

(***************************************************************************)
(* The requests the model enumerates.                                      *)
(***************************************************************************)
Some(msg) == [some |-> TRUE, msg |-> msg]

None == [some |-> FALSE]

Optional(S) == {None} \cup {Some(m) : m \in S}

ExistingSpecs ==
    Operands
    \cup {NegatedSpec(c) : c \in Picks}
    \cup {GroupSpec(j, cs) : j \in Joiners, cs \in Seqs(Operands, MaxInnerLen)}

AdditionalSpecs ==
    {TagSpec(<<"a">>), [filter |-> "Deck", s |-> <<"*">>], TextSpec("t_err"),
     GroupSpec("Or", <<>>), GroupSpec("Or", <<TagSpec(<<"a">>), Absent>>)}

JoinRequests ==
    [joiner : Joiners, existing_node : Optional(ExistingSpecs),
     additional_node : Optional(AdditionalSpecs)]

ReplaceRequests ==
    [existing_node : Optional(ExistingSpecs),
     replacement_node : Optional(AdditionalSpecs)]

SearchChars == {"a", ".", "?"}

FindAndReplaceRequests ==
    [nids : {<<>>, <<1, 2>>}, search : Seqs(SearchChars, MaxStrLen),
     replacement : {<<>>, <<"b">>}, field_name : {<<>>, <<"f">>},
     regex : BOOLEAN, match_case : BOOLEAN]

CollectionOutcomes == {Ok([count |-> 0]), Ok([count |-> 1]), Err("DBError", "collection")}

(***************************************************************************)
(* The service handles one request at a time: a request is handled, and    *)
(* its response returned.                                                  *)
(***************************************************************************)
Handle(name, request, outcome) ==
    /\ op' = name
    /\ input' = request
    /\ locals' = outcome.locals
    /\ call' = outcome.call
    /\ result' = outcome.result

Init ==
    /\ op = "idle"
    /\ input = [none |-> TRUE]
    /\ locals = [none |-> TRUE]
    /\ call = NoCall
    /\ result = [none |-> TRUE]

BuildSearchString ==
    /\ op = "idle"
    /\ \E msg \in BuildSpecs :
          Handle("build_search_string", msg, build_search_string(msg))

JoinSearchNodes ==
    /\ op = "idle"
    /\ \E req \in JoinRequests :
          Handle("join_search_nodes", req, join_search_nodes(req))

ReplaceSearchNode ==
    /\ op = "idle"
    /\ \E req \in ReplaceRequests :
          \E outcome \in ReplaceSearchNodeOutcomes(req) :
              Handle("replace_search_node", req, outcome)

FindAndReplace ==
    /\ op = "idle"
    /\ \E req \in FindAndReplaceRequests :
          \E col_outcome \in CollectionOutcomes :
              Handle("find_and_replace", req, find_and_replace(req, col_outcome))

Respond ==
    /\ op # "idle"
    /\ op' = "idle"
    /\ input' = [none |-> TRUE]
    /\ locals' = [none |-> TRUE]
    /\ call' = NoCall
    /\ result' = [none |-> TRUE]

Next ==
    \/ BuildSearchString
    \/ JoinSearchNodes
    \/ ReplaceSearchNode
    \/ FindAndReplace
    \/ Respond

Spec == Init /\ [][Next]_vars

(***************************************************************************)
(* Properties.                                                             *)
(***************************************************************************)
Building == op = "build_search_string"

Joining == op = "join_search_nodes"

Replacing == op = "replace_search_node"

\* A specification holds, at some depth under Group or Negated, a group of
\* no children or a free text the Parser rejects.
RECURSIVE Rejected(_)
Rejected(msg) ==
    CASE msg.filter = "Group" ->
            \/ Len(msg.nodes) = 0
            \/ \E i \in DOMAIN msg.nodes : Rejected(msg.nodes[i])
      [] msg.filter = "Negated" -> Rejected(msg.term)
      [] msg.filter = "ParsableText" -> msg.text = "t_err"
      [] OTHER -> FALSE

RECURSIVE IsTree(_)
IsTree(n) ==
    CASE n.k = "Search" -> TRUE
      [] n.k = "Not" -> IsTree(n.n)
      [] n.k \in {"And", "Or"} -> TRUE
      [] n.k = "Group" -> \A i \in DOMAIN n.nodes : IsTree(n.nodes[i])
      [] OTHER -> FALSE

\* C1: the build fails, with InvalidInput and no tree at all, exactly when
\* the specification holds at some depth an empty group (under either
\* joiner) or a free text the Parser rejects; otherwise it returns a whole
\* tree.
C1_BuildFailsExactlyOnRejected ==
    Building =>
        /\ (~locals.node.ok) <=> Rejected(input)
        /\ ~locals.node.ok =>
              /\ locals.node.err.kind = "InvalidInput"
              /\ DOMAIN locals.node = {"ok", "err"}
              /\ call = NoCall
              /\ result = locals.node
        /\ locals.node.ok => IsTree(locals.node.val)

C1_Witness ==
    /\ Building
    /\ input.filter = "Group"
    /\ input.joiner = "And"
    /\ Len(input.nodes) = 2
    /\ input.nodes[1] = TagSpec(<<"a">>)
    /\ input.nodes[2] = GroupSpec("Or", <<>>)
    /\ ~locals.node.ok

OtherJoiner(j) == IF j = "And" THEN "Or" ELSE "And"

\* C2: a group of exactly one child builds, under either joiner, to what the
\* child builds to (the same tree or the same failure), also through a chain
\* of such groups.
C2_GroupCollapsing ==
    (Building /\ input.filter = "Group" /\ Len(input.nodes) = 1) =>
        LET c == input.nodes[1]
        IN  /\ locals.node = Node_try_from(c)
            /\ locals.node = Node_try_from(GroupSpec(OtherJoiner(input.joiner), <<c>>))
            /\ (c.filter = "Group" /\ Len(c.nodes) = 1) =>
                  locals.node = Node_try_from(c.nodes[1])

C2_Witness ==
    /\ Building
    /\ input = GroupSpec("Or", <<GroupSpec("And", <<TagSpec(<<"a">>)>>)>>)
    /\ locals.node = Ok(TagA)

RECURSIVE WellFormed(_)
WellFormed(n) ==
    CASE n.k = "Search" -> TRUE
      [] n.k = "Not" -> ~IsOperator(n.n) /\ WellFormed(n.n)
      [] n.k = "Group" ->
            /\ Len(n.nodes) >= 3
            /\ Len(n.nodes) % 2 = 1
            /\ \A i \in DOMAIN n.nodes :
                  IF i % 2 = 1
                  THEN ~IsOperator(n.nodes[i]) /\ WellFormed(n.nodes[i])
                  ELSE IsOperator(n.nodes[i])
      [] OTHER -> FALSE

\* A group specification of n >= 2 children builds to a group of 2n-1
\* entries: the built children in order, the joiner's token between them.
C3_StructuredGroups ==
    (Building /\ input.filter = "Group" /\ Len(input.nodes) >= 2 /\ locals.node.ok) =>
        LET n == Len(input.nodes)
            built == locals.node.val
        IN  /\ built.k = "Group"
            /\ Len(built.nodes) = 2 * n - 1
            /\ \A i \in 1..n : built.nodes[2 * i - 1] = Node_try_from(input.nodes[i]).val
            /\ \A i \in 1..(n - 1) : built.nodes[2 * i] = SeparatorNode(input.joiner)

\* C3: every group of a built tree has at least two operands with exactly
\* one operator token between consecutive operands, no operator token stands
\* outside a group, a group specification of n >= 2 children builds to 2n-1
\* entries, and all this holds whatever sequence the Parser returns.
C3_GroupsWellFormed ==
    /\ (Building /\ locals.node.ok) => WellFormed(locals.node.val)
    /\ C3_StructuredGroups

\* C4: a Negated specification whose child builds to t builds to the
\* negation of t, also when t is a negation; two negations are kept, and the
\* tree differs from the one negated twice.
C4_NegationWraps ==
    (Building /\ input.filter = "Negated") =>
        LET t == Node_try_from(input.term)
        IN  IF ~t.ok THEN locals.node = t
            ELSE /\ locals.node = Ok(Not(t.val))
                 /\ input.term.filter = "Negated" =>
                       LET inner == Node_try_from(input.term.term)
                       IN  /\ locals.node.val = Not(Not(inner.val))
                           /\ locals.node.val # inner.val

C4_Witness ==
    /\ Building
    /\ input = NegatedSpec([filter |-> "Flag", flag |-> "Any"])
    /\ locals.node = Ok(Not(Not(Search([kind |-> "Flag", n |-> 0]))))

Subst(seq, target, replacement) ==
    [i \in DOMAIN seq |-> IF seq[i] = target THEN replacement ELSE seq[i]]

Normalized(node) == IF node.k = "Group" THEN node.nodes ELSE <<node>>

Targets == {TagA, DeckAny, WholeCollection}

JoinedSequence(flat, sep, additional) ==
    IF flat = <<>> THEN <<additional>> ELSE flat \o <<SeparatorNode(sep), additional>>

\* C6 as stated: the serialized sequence is the flattened existing sequence,
\* one token of the separator and the additional node; the additional node
\* alone when there is nothing existing, an absent existing specification
\* included.
C6_JoinAbsentIsEmpty ==
    (Joining /\ result.ok) =>
        LET flat == IF input.existing_node.some
                    THEN Normalized(locals.node.val) ELSE <<>>
        IN  result.val.written =
                JoinedSequence(flat, input.joiner, locals.additional_node.val)

\* C6: the serialized sequence is the flattened existing sequence, one token
\* of the separator and the additional node, nothing removed or regrouped;
\* the additional node alone when the flattened sequence has no element.  An
\* absent existing specification is not empty: it builds to WholeCollection,
\* which is joined like any other operand.
C6_JoinAppends ==
    Joining =>
        LET existing == IF input.existing_node.some
                        THEN Node_try_from(input.existing_node.msg)
                        ELSE Ok(WholeCollection)
            additional == Node_try_from(unwrap_or_default(input.additional_node))
        IN  (existing.ok /\ additional.ok) =>
                /\ result.ok
                /\ result.val.written =
                      JoinedSequence(Normalized(existing.val), input.joiner,
                                     additional.val)

C6_Witness ==
    /\ Joining
    /\ input.joiner = "And"
    /\ input.existing_node = Some(GroupSpec("And", <<TagSpec(<<"a">>), Absent>>))
    /\ result.ok
    /\ result.val.written = <<TagA, And, WholeCollection, And, DeckAny>>

\* C7 as stated: join_search_nodes and replace_search_node return a text and
\* never an error.
C7_CombinatorsTotal ==
    (Joining \/ Replacing) => (result.ok /\ "written" \in DOMAIN result.val)

\* C7: join_search_nodes and replace_search_node return a text exactly when
\* both their specifications build, absent ones included (they always
\* build); otherwise they return the error of the first build that fails,
\* unchanged, and hand nothing on.
C7_CombinatorsFailOnlyOnBuild ==
    (Joining \/ Replacing) =>
        LET first == input.existing_node
            second == IF Joining THEN input.additional_node ELSE input.replacement_node
        IN  /\ result.ok <=> (~Rejected(unwrap_or_default(first))
                              /\ ~Rejected(unwrap_or_default(second)))
            /\ result.ok => "written" \in DOMAIN result.val
            /\ ~result.ok =>
                  /\ call = NoCall
                  /\ result = IF Rejected(unwrap_or_default(first))
                              THEN Node_try_from(unwrap_or_default(first))
                              ELSE Node_try_from(unwrap_or_default(second))
            /\ (~first.some /\ ~second.some) => result.ok

C7_Witness ==
    /\ Joining
    /\ input.existing_node = Some(GroupSpec("And", <<>>))
    /\ input.additional_node = Some(TagSpec(<<"a">>))
    /\ result = invalid_input("empty group")

PatternFilters == {"Tag", "Deck", "Note", "FieldName"}

StoredPattern(node) == IF node.p.kind = "SingleField" THEN node.p.field ELSE node.p.s

Wildcards(s) == {i \in DOMAIN s : s[i] \in AnkiWildcards}

\* C8: the pattern of a tag, deck, note type or field name predicate is
\* stored escaped, but for the deck pattern that is exactly one star, which
\* is stored as it is.
C8_WildcardEscaping ==
    (Building /\ input.filter \in PatternFilters) =>
        LET literal == input.filter = "Deck" /\ input.s = <<"*">>
            stored == StoredPattern(locals.node.val)
        IN  /\ locals.node.ok
            /\ literal => stored = <<"*">>
            /\ ~literal =>
                  /\ stored = escape_anki_wildcards(input.s)
                  /\ Len(stored) = Len(input.s) + Cardinality(Wildcards(input.s))
                  /\ (Wildcards(input.s) # {}) => stored # input.s

C8_Witness ==
    /\ Building
    /\ input = [filter |-> "Deck", s |-> <<"*", "*">>]
    /\ locals.node = Ok(Search([kind |-> "Deck", s |-> <<"\\", "*", "\\", "*">>]))

\* C9: the pattern handed to the collection is the input, regex-escaped
\* unless it is a regex, with the case-insensitive marker prefixed once,
\* unescaped, unless the case is to match; note ids, replacement and field
\* name pass through, an empty field name as no field.
C9_PatternNormalization ==
    op = "find_and_replace" =>
        LET pattern == IF input.regex THEN input.search ELSE regex_escape(input.search)
        IN  /\ call.fn = "find_and_replace"
            /\ input.match_case => call.search = pattern
            /\ ~input.match_case => call.search = <<"(", "?", "i", ")">> \o pattern
            /\ Len(call.nids) = Len(input.nids)
            /\ \A i \in DOMAIN input.nids : call.nids[i].note_id = input.nids[i]
            /\ call.repl = input.replacement
            /\ call.field_name =
                  IF input.field_name = <<>> THEN None
                  ELSE [some |-> TRUE, name |-> input.field_name]

C9_Witness ==
    /\ op = "find_and_replace"
    /\ ~input.regex
    /\ ~input.match_case
    /\ input.search = <<"?", ".">>
    /\ input.field_name = <<>>
    /\ call.search = <<"(", "?", "i", ")", "\\", "?", "\\", ".">>
    /\ call.field_name = None

\* C10: a Template filter of index u builds, without failing, to the
\* ordinal u mod 2^16: the index itself only below 65536, and the same tree
\* for indices that agree modulo 65536.
C10_TemplateTruncation ==
    (Building /\ input.filter = "Template") =>
        /\ locals.node =
              Ok(Search([kind |-> "CardTemplate", ordinal |-> input.u % 65536]))
        /\ (locals.node.val.p.ordinal = input.u) <=> (input.u < 65536)
        /\ \A v \in TemplateIndices :
              (v % 65536 = input.u % 65536) =>
                  Node_try_from([filter |-> "Template", u |-> v]) = locals.node

C10_Witness ==
    /\ Building
    /\ input = [filter |-> "Template", u |-> 65537]
    /\ locals.node.val.p.ordinal = 1

====
